---- MODULE Spec2Model ----
(***************************************************************************)
(* Model of backend/textract/async_textract_receipt.py: a one-shot script  *)
(* that converts receipt-1.png to JPEG, uploads it to S3, starts a         *)
(* Textract document analysis, polls until SUCCEEDED or FAILED and writes  *)
(* the last poll response to async_output.json.                            *)
(*                                                                         *)
(* The script is one thread of control; pc names the statement about to    *)
(* run.  The file system, S3 and Textract are the environment: whether a   *)
(* call returns or raises, and what it returns, is chosen by \E.           *)
(***************************************************************************)
EXTENDS Integers, Sequences, FiniteSets

VARIABLES
    pc,            \* statement about to run; "done" once the interpreter has exited
    srcImage,      \* what receipt-1.png is on disk (never mutated)
    img,           \* the in-memory image, Unbound before Image.open
    jpegFile,      \* receipt-1.jpg on disk
    remoteObject,  \* s3://receipt-app-demo-mhomer/receipt-1.jpg
    job_id,        \* job_id, "unbound" before line 69
    status,        \* status, "unbound" before line 76
    responses,     \* the get_document_analysis responses so far; the last is `result`
    outputFile,    \* async_output.json on disk
    exc,           \* the exception propagating, "none" if there is none
    verifyError,   \* the exception caught by the verification handler (line 55)
    calls,         \* how many times each external call was invoked
    sleeps,        \* how many time.sleep(5) calls were made
    slept,         \* total seconds slept
    fileWrites,    \* how many times async_output.json was opened for writing
    caught,        \* how many times the outer except clause (line 92) was entered
    issued,        \* job identifiers returned by start_document_analysis
    pollIds,       \* job identifiers passed to get_document_analysis
    log,           \* what print() wrote, as <<text, value>> pairs
    exitCode       \* -1 while running, 0 normal exit, 1 exit by uncaught exception

vars == <<pc, srcImage, img, jpegFile, remoteObject, job_id, status, responses,
          outputFile, exc, verifyError, calls, sleeps, slept, fileWrites, caught,
          issued, pollIds, log, exitCode>>

----------------------------------------------------------------------------
(* Bounds *)

\* polls counted before the model stops following a run
MaxPolls == 3
\* print() lines remembered by the fair specification, which never stops a run
MaxLog == 4

(* Program constants *)

SleepSeconds == 5
JpegQuality == 95
JsonIndent == 2

bucket_name == "receipt-app-demo-mhomer"
original_file == "receipt-1.png"
jpeg_file == "receipt-1.jpg"
s3_path == jpeg_file

----------------------------------------------------------------------------
(* The environment's values *)

\* receipt-1.png: absent, not an image, or an image of some mode whose pixel data
\* may be cut short
ImageModes == {"RGBA", "P", "RGB"}
SourceImages ==
    {[kind |-> "missing", mode |-> "none", truncated |-> FALSE],
     [kind |-> "unidentified", mode |-> "none", truncated |-> FALSE]}
    \cup [kind : {"image"}, mode : ImageModes, truncated : BOOLEAN]

\* the modes the JPEG encoder accepts
JpegModes == {"L", "RGB", "CMYK"}

\* `img` before line 33
Unbound == [mode |-> "unbound", truncated |-> FALSE]

\* exceptions botocore raises from a client call
RemoteErrors == {"ClientError", "EndpointConnectionError"}
\* exceptions boto3's managed transfer raises from upload_file
UploadErrors == {"S3UploadFailedError", "EndpointConnectionError"}

JobIds == {"job-a", "job-b"}
Payloads == {"blocks-1", "blocks-2"}
Messages == {"Unsupported document format"}

\* JobStatus values of the service; the script names only two of them
Statuses == {"IN_PROGRESS", "SUCCEEDED", "FAILED", "PARTIAL_SUCCESS"}

\* Responses of get_document_analysis, as dicts (functions from key to value)
PollResponses ==
    {[JobStatus |-> "IN_PROGRESS"]}
    \cup {[JobStatus |-> "PARTIAL_SUCCESS", Blocks |-> b] : b \in Payloads}
    \cup {[JobStatus |-> "SUCCEEDED", Blocks |-> b] : b \in Payloads}
    \cup {[JobStatus |-> "FAILED"]}
    \cup {[JobStatus |-> "FAILED", StatusMessage |-> m] : m \in Messages}

\* receipt-1.jpg: an encoded image
NoJpeg == [exists |-> FALSE, format |-> "none", mode |-> "none", quality |-> 0, pixels |-> "none"]
StaleJpeg ==
    [exists |-> TRUE, format |-> "JPEG", mode |-> "RGB", quality |-> JpegQuality,
     pixels |-> "stale"]

\* async_output.json: a dumped document
NoJson == [exists |-> FALSE, indent |-> 0, members |-> <<>>]
StaleJson ==
    [exists |-> TRUE, indent |-> JsonIndent,
     members |-> <<<<"JobStatus", "SUCCEEDED">>, <<"Blocks", "stale">>>>]

\* the object at s3://bucket_name/s3_path
NoObject == [exists |-> FALSE, ContentType |-> "none", body |-> NoJpeg]
StaleObject == [exists |-> TRUE, ContentType |-> "image/jpeg", body |-> StaleJpeg]

----------------------------------------------------------------------------
(* Pure helpers *)

\* the order in which the service's dict holds its keys
KeyOrder == <<"JobStatus", "StatusMessage", "Blocks">>

RECURSIVE Members(_, _)
Members(d, i) ==
    IF i > Len(KeyOrder) THEN <<>>
    ELSE IF KeyOrder[i] \in DOMAIN d
         THEN <<<<KeyOrder[i], d[KeyOrder[i]]>>>> \o Members(d, i + 1)
         ELSE Members(d, i + 1)

\* json.dump(d, f, indent=2): the members of d in order, at the given indentation
JsonDump(d, indent) == [exists |-> TRUE, indent |-> indent, members |-> Members(d, 1)]

\* the value of a top-level member of a dumped document, "absent" if it has none
JsonGet(doc, key) ==
    IF \E i \in 1..Len(doc.members) : doc.members[i][1] = key
    THEN doc.members[CHOOSE i \in 1..Len(doc.members) : doc.members[i][1] = key][2]
    ELSE "absent"

\* the dict bound to `result`: the response of the latest poll
result == responses[Len(responses)]

\* print(): the lines are appended to stdout
Stdout(out, lines) == out \o lines

\* the newest `cap` elements of a sequence
Newest(s, cap) == IF Len(s) > cap THEN SubSeq(s, Len(s) - cap + 1, Len(s)) ELSE s

\* Bookkeeping of a loop that may run for ever.  A bounded run (live = FALSE)
\* counts and remembers everything and is followed for MaxPolls polls; an
\* unbounded run (live = TRUE) stops counting at MaxPolls and remembers the
\* newest entries only.
Count(n, live) == IF live /\ n >= MaxPolls THEN n ELSE n + 1
Remember(s, cap, live) == IF live THEN Newest(s, cap) ELSE s

\* the response of head_object for an object
HeadResponse(obj) ==
    [ContentType |-> obj.ContentType, ContentLength |-> obj.body.pixels,
     LastModified |-> "now"]

\* an exception nothing catches: the traceback is printed and the process exits 1
Uncaught(e) ==
    /\ exc' = e
    /\ pc' = "done"
    /\ exitCode' = 1

\* an exception inside the try block of lines 60-90: control goes to line 92
RaiseInTry(e) ==
    /\ exc' = e
    /\ pc' = "except"

----------------------------------------------------------------------------
Init ==
    /\ pc = "open"
    /\ srcImage \in SourceImages
    /\ img = Unbound
    /\ jpegFile \in {NoJpeg, StaleJpeg}
    /\ remoteObject \in {NoObject, StaleObject}
    /\ job_id = "unbound"
    /\ status = "unbound"
    /\ responses = <<>>
    /\ outputFile \in {NoJson, StaleJson}
    /\ exc = "none"
    /\ verifyError = "none"
    /\ calls = [upload_file |-> 0, head_object |-> 0,
                start_document_analysis |-> 0, get_document_analysis |-> 0]
    /\ sleeps = 0
    /\ slept = 0
    /\ fileWrites = 0
    /\ caught = 0
    /\ issued = {}
    /\ pollIds = {}
    /\ log = <<>>
    /\ exitCode = -1

----------------------------------------------------------------------------
(* Lines 31-36: convert PNG to JPEG *)

\* line 32-33: img = Image.open(original_file)
OpenImage ==
    /\ pc = "open"
    /\ log' = Stdout(log, <<<<"Converting image to JPEG...", original_file>>>>)
    /\ IF srcImage.kind = "missing"
       THEN Uncaught("FileNotFoundError") /\ UNCHANGED img
       ELSE IF srcImage.kind = "unidentified"
       THEN Uncaught("UnidentifiedImageError") /\ UNCHANGED img
       ELSE /\ img' = [mode |-> srcImage.mode, truncated |-> srcImage.truncated]
            /\ pc' = "convert"
            /\ UNCHANGED <<exc, exitCode>>
    /\ UNCHANGED <<srcImage, jpegFile, remoteObject, job_id, status, responses,
                   outputFile, verifyError, calls, sleeps, slept, fileWrites,
                   caught, issued, pollIds>>

\* mutant: the conversion does not decode, so a truncated image passes
ConvertRGB_NoDecode ==
    /\ pc = "convert"
    /\ img' = [mode |-> "RGB", truncated |-> FALSE]
    /\ pc' = "save"
    /\ UNCHANGED <<srcImage, jpegFile, remoteObject, job_id, status, responses,
                   outputFile, exc, verifyError, calls, sleeps, slept, fileWrites,
                   caught, issued, pollIds, log, exitCode>>

\* line 34: img = img.convert('RGB'); the pixel data is decoded here
ConvertRGB ==
    /\ pc = "convert"
    /\ IF img.truncated
       THEN Uncaught("OSError") /\ UNCHANGED img
       ELSE /\ img' = [mode |-> "RGB", truncated |-> FALSE]
            /\ pc' = "save"
            /\ UNCHANGED <<exc, exitCode>>
    /\ UNCHANGED <<srcImage, jpegFile, remoteObject, job_id, status, responses,
                   outputFile, verifyError, calls, sleeps, slept, fileWrites,
                   caught, issued, pollIds, log>>

\* line 35-36: img.save(jpeg_file, 'JPEG', quality=95)
SaveJpeg ==
    /\ pc = "save"
    /\ IF img.mode \in JpegModes
       THEN /\ jpegFile' = [exists |-> TRUE, format |-> "JPEG", mode |-> img.mode,
                            quality |-> JpegQuality, pixels |-> original_file]
            /\ log' = Stdout(log, <<<<"Saved as", jpeg_file>>>>)
            /\ pc' = "upload"
            /\ UNCHANGED <<exc, exitCode>>
       ELSE Uncaught("OSError") /\ UNCHANGED <<jpegFile, log>>
    /\ UNCHANGED <<srcImage, img, remoteObject, job_id, status, responses,
                   outputFile, verifyError, calls, sleeps, slept, fileWrites,
                   caught, issued, pollIds>>

----------------------------------------------------------------------------
(* Lines 38-56: upload to S3 and verify *)

\* mutant: the upload is wrapped like the verification, its error printed
UploadFile_Swallow ==
    /\ pc = "upload"
    /\ calls' = [calls EXCEPT !.upload_file = @ + 1]
    /\ \/ /\ remoteObject' =
                [exists |-> TRUE, ContentType |-> "image/jpeg", body |-> jpegFile]
          /\ log' = Stdout(log, <<<<"Uploading image to S3...", s3_path>>>>)
       \/ \E e \in UploadErrors :
             /\ log' = Stdout(log, <<<<"Uploading image to S3...", s3_path>>,
                                     <<"Error uploading file", e>>>>)
             /\ UNCHANGED remoteObject
    /\ pc' = "head"
    /\ UNCHANGED <<srcImage, img, jpegFile, job_id, status, responses, outputFile,
                   exc, verifyError, sleeps, slept, fileWrites, caught, issued,
                   pollIds, exitCode>>

\* line 39-45: s3.upload_file(...), outside every try block
UploadFile ==
    /\ pc = "upload"
    /\ log' = Stdout(log, <<<<"Uploading image to S3...", s3_path>>>>)
    /\ calls' = [calls EXCEPT !.upload_file = @ + 1]
    /\ \/ /\ remoteObject' =
                [exists |-> TRUE, ContentType |-> "image/jpeg", body |-> jpegFile]
          /\ pc' = "head"
          /\ UNCHANGED <<exc, exitCode>>
       \/ \E e \in UploadErrors :
             Uncaught(e) /\ UNCHANGED remoteObject
    /\ UNCHANGED <<srcImage, img, jpegFile, job_id, status, responses, outputFile,
                   verifyError, sleeps, slept, fileWrites, caught, issued, pollIds>>

\* mutant: the verification is not wrapped in try/except
HeadObject_Fatal ==
    /\ pc = "head"
    /\ calls' = [calls EXCEPT !.head_object = @ + 1]
    /\ \/ /\ log' = Stdout(log,
                   <<<<"Successfully verified file exists at", s3_path>>,
                     <<"File metadata:", s3_path>>,
                     <<"Content Type", HeadResponse(remoteObject).ContentType>>,
                     <<"Content Length", HeadResponse(remoteObject).ContentLength>>,
                     <<"Last Modified", HeadResponse(remoteObject).LastModified>>>>)
          /\ pc' = "start"
          /\ UNCHANGED <<verifyError, exc, exitCode>>
       \/ \E e \in RemoteErrors :
             /\ verifyError' = e
             /\ Uncaught(e)
             /\ UNCHANGED log
    /\ UNCHANGED <<srcImage, img, jpegFile, remoteObject, job_id, status, responses,
                   outputFile, sleeps, slept, fileWrites, caught, issued, pollIds>>

\* line 48-56: try: s3.head_object(...) except Exception: print
HeadObject ==
    /\ pc = "head"
    /\ calls' = [calls EXCEPT !.head_object = @ + 1]
    /\ \/ /\ log' = Stdout(log,
                   <<<<"Successfully verified file exists at", s3_path>>,
                     <<"File metadata:", s3_path>>,
                     <<"Content Type", HeadResponse(remoteObject).ContentType>>,
                     <<"Content Length", HeadResponse(remoteObject).ContentLength>>,
                     <<"Last Modified", HeadResponse(remoteObject).LastModified>>>>)
          /\ UNCHANGED verifyError
       \/ \E e \in RemoteErrors :
             /\ verifyError' = e
             /\ log' = Stdout(log, <<<<"Error verifying file", e>>>>)
    /\ pc' = "start"
    /\ UNCHANGED <<srcImage, img, jpegFile, remoteObject, job_id, status, responses,
                   outputFile, exc, sleeps, slept, fileWrites, caught, issued,
                   pollIds, exitCode>>

----------------------------------------------------------------------------
(* Lines 58-95: the try block and its handler *)

\* line 59-73: response = textract.start_document_analysis(...);
\* job_id = response['JobId']
StartDocumentAnalysis ==
    /\ pc = "start"
    /\ calls' = [calls EXCEPT !.start_document_analysis = @ + 1]
    /\ \/ \E j \in JobIds :
             /\ job_id' = j
             /\ issued' = issued \cup {j}
             /\ log' = Stdout(log,
                      <<<<"Starting Textract job...", s3_path>>,
                        <<"Using region", "AWS_DEFAULT_REGION">>,
                        <<"Attempting to process file", s3_path>>,
                        <<"Job started with ID:", j>>,
                        <<"Waiting for job to complete...", j>>>>)
             /\ pc' = "poll"
             /\ UNCHANGED exc
       \/ \E e \in RemoteErrors :
             /\ RaiseInTry(e)
             /\ log' = Stdout(log,
                      <<<<"Starting Textract job...", s3_path>>,
                        <<"Using region", "AWS_DEFAULT_REGION">>,
                        <<"Attempting to process file", s3_path>>>>)
             /\ UNCHANGED <<job_id, issued>>
    /\ UNCHANGED <<srcImage, img, jpegFile, remoteObject, status, responses,
                   outputFile, verifyError, sleeps, slept, fileWrites, caught,
                   pollIds, exitCode>>

\* line 75-77: result = textract.get_document_analysis(JobId=job_id);
\* status = result['JobStatus']
GetDocumentAnalysis(live) ==
    /\ pc = "poll"
    /\ live \/ calls.get_document_analysis < MaxPolls
    /\ calls' = [calls EXCEPT !.get_document_analysis = Count(@, live)]
    /\ pollIds' = pollIds \cup {job_id}
    /\ \/ \E r \in PollResponses :
             /\ responses' = Remember(Append(responses, r), MaxPolls, live)
             /\ status' = r["JobStatus"]
             /\ log' = Remember(Stdout(log, <<<<"Current status", r["JobStatus"]>>>>),
                                MaxLog, live)
             /\ pc' = "check"
             /\ UNCHANGED exc
       \/ \E e \in RemoteErrors :
             /\ RaiseInTry(e)
             /\ UNCHANGED <<responses, status, log>>
    /\ UNCHANGED <<srcImage, img, jpegFile, remoteObject, job_id, outputFile,
                   verifyError, sleeps, slept, fileWrites, caught, issued, exitCode>>

\* mutant: if status == 'SUCCEEDED': break
CheckStatus_BreakOnlyOnSucceeded ==
    /\ pc = "check"
    /\ pc' = IF status = "SUCCEEDED" THEN "handle" ELSE "sleep"
    /\ UNCHANGED <<srcImage, img, jpegFile, remoteObject, job_id, status, responses,
                   outputFile, exc, verifyError, calls, sleeps, slept, fileWrites,
                   caught, issued, pollIds, log, exitCode>>

\* mutant: if status != 'IN_PROGRESS': break
CheckStatus_BreakUnlessInProgress ==
    /\ pc = "check"
    /\ pc' = IF status # "IN_PROGRESS" THEN "handle" ELSE "sleep"
    /\ UNCHANGED <<srcImage, img, jpegFile, remoteObject, job_id, status, responses,
                   outputFile, exc, verifyError, calls, sleeps, slept, fileWrites,
                   caught, issued, pollIds, log, exitCode>>

\* line 78-79: if status in ['SUCCEEDED', 'FAILED']: break
CheckStatus ==
    /\ pc = "check"
    /\ pc' = IF status \in {"SUCCEEDED", "FAILED"} THEN "handle" ELSE "sleep"
    /\ UNCHANGED <<srcImage, img, jpegFile, remoteObject, job_id, status, responses,
                   outputFile, exc, verifyError, calls, sleeps, slept, fileWrites,
                   caught, issued, pollIds, log, exitCode>>

\* mutant: the loop starts at the submission, so every iteration submits again
Sleep_Resubmit(live) ==
    /\ pc = "sleep"
    /\ sleeps' = Count(sleeps, live)
    /\ slept' = IF sleeps' = sleeps THEN slept ELSE slept + SleepSeconds
    /\ pc' = "start"
    /\ UNCHANGED <<srcImage, img, jpegFile, remoteObject, job_id, status, responses,
                   outputFile, exc, verifyError, calls, fileWrites, caught, issued,
                   pollIds, log, exitCode>>

\* line 80: time.sleep(5)
Sleep(live) ==
    /\ pc = "sleep"
    /\ sleeps' = Count(sleeps, live)
    /\ slept' = IF sleeps' = sleeps THEN slept ELSE slept + SleepSeconds
    /\ pc' = "poll"
    /\ UNCHANGED <<srcImage, img, jpegFile, remoteObject, job_id, status, responses,
                   outputFile, exc, verifyError, calls, fileWrites, caught, issued,
                   pollIds, log, exitCode>>

\* mutant: the result is written whatever the final status
HandleResult_WritesAnyStatus ==
    /\ pc = "handle"
    /\ \/ /\ outputFile' = JsonDump(result, JsonIndent)
          /\ fileWrites' = fileWrites + 1
          /\ log' = Stdout(log, <<<<"Done! Result saved to", "async_output.json">>>>)
          /\ pc' = "done"
          /\ exitCode' = 0
          /\ UNCHANGED exc
       \/ /\ RaiseInTry("OSError")
          /\ UNCHANGED <<outputFile, fileWrites, log, exitCode>>
    /\ UNCHANGED <<srcImage, img, jpegFile, remoteObject, job_id, status, responses,
                   verifyError, calls, sleeps, slept, caught, issued, pollIds>>

\* mutant: the response of the first poll is kept and written
HandleResult_WritesFirstResponse ==
    /\ pc = "handle"
    /\ IF status = "SUCCEEDED"
       THEN \/ /\ outputFile' = JsonDump(responses[1], JsonIndent)
               /\ fileWrites' = fileWrites + 1
               /\ log' = Stdout(log, <<<<"Done! Result saved to", "async_output.json">>>>)
               /\ pc' = "done"
               /\ exitCode' = 0
               /\ UNCHANGED exc
            \/ /\ RaiseInTry("OSError")
               /\ UNCHANGED <<outputFile, fileWrites, log, exitCode>>
       ELSE /\ log' = Stdout(log, <<<<"Job failed with status", status>>>>)
            /\ pc' = "done"
            /\ exitCode' = 0
            /\ UNCHANGED <<outputFile, fileWrites, exc>>
    /\ UNCHANGED <<srcImage, img, jpegFile, remoteObject, job_id, status, responses,
                   verifyError, calls, sleeps, slept, caught, issued, pollIds>>

\* line 82-90: write the result, or report the failure; then the script ends
HandleResult ==
    /\ pc = "handle"
    /\ IF status = "SUCCEEDED"
       THEN \/ /\ outputFile' = JsonDump(result, JsonIndent)
               /\ fileWrites' = fileWrites + 1
               /\ log' = Stdout(log, <<<<"Done! Result saved to", "async_output.json">>>>)
               /\ pc' = "done"
               /\ exitCode' = 0
               /\ UNCHANGED exc
            \/ /\ RaiseInTry("OSError")
               /\ UNCHANGED <<outputFile, fileWrites, log, exitCode>>
       ELSE /\ log' = Stdout(log,
                     <<<<"Job failed with status", status>>>>
                     \o (IF "StatusMessage" \in DOMAIN result
                         THEN <<<<"Status message", result["StatusMessage"]>>>>
                         ELSE <<>>))
            /\ pc' = "done"
            /\ exitCode' = 0
            /\ UNCHANGED <<outputFile, fileWrites, exc>>
    /\ UNCHANGED <<srcImage, img, jpegFile, remoteObject, job_id, status, responses,
                   verifyError, calls, sleeps, slept, caught, issued, pollIds>>

\* mutant: the handler prints and does not re-raise
Except_NoReraise ==
    /\ pc = "except"
    /\ caught' = caught + 1
    /\ log' = Stdout(log, <<<<"Error processing document", exc>>,
                            <<"Error type", exc>>>>)
    /\ pc' = "done"
    /\ exitCode' = 0
    /\ UNCHANGED <<srcImage, img, jpegFile, remoteObject, job_id, status, responses,
                   outputFile, exc, verifyError, calls, sleeps, slept, fileWrites,
                   issued, pollIds>>

\* line 92-95: except Exception as e: print, print, raise
Except ==
    /\ pc = "except"
    /\ caught' = caught + 1
    /\ log' = Stdout(log, <<<<"Error processing document", exc>>,
                            <<"Error type", exc>>>>)
    /\ pc' = "done"
    /\ exitCode' = 1
    /\ UNCHANGED <<srcImage, img, jpegFile, remoteObject, job_id, status, responses,
                   outputFile, exc, verifyError, calls, sleeps, slept, fileWrites,
                   issued, pollIds>>

----------------------------------------------------------------------------
(* Specifications *)

\* runs followed for at most MaxPolls polls
Next ==
    \/ OpenImage
    \/ ConvertRGB
    \/ SaveJpeg
    \/ UploadFile
    \/ HeadObject
    \/ StartDocumentAnalysis
    \/ GetDocumentAnalysis(FALSE)
    \/ CheckStatus
    \/ Sleep(FALSE)
    \/ HandleResult
    \/ Except

Spec == Init /\ [][Next]_vars

\* runs of any length: the interpreter always executes the next statement, and
\* nothing is assumed of what the services answer
LiveNext ==
    \/ OpenImage
    \/ ConvertRGB
    \/ SaveJpeg
    \/ UploadFile
    \/ HeadObject
    \/ StartDocumentAnalysis
    \/ GetDocumentAnalysis(TRUE)
    \/ CheckStatus
    \/ Sleep(TRUE)
    \/ HandleResult
    \/ Except

LiveSpec == Init /\ [][LiveNext]_vars /\ WF_vars(LiveNext)

----------------------------------------------------------------------------
(* Properties *)

\* the statuses that end the poll loop, by the specification's glossary
TerminalStatuses == {"SUCCEEDED", "FAILED"}

InLoop == pc \in {"poll", "check", "sleep"}
Submitted == job_id # "unbound"
LoopEnded == Submitted /\ ~InLoop
BadSource == srcImage.kind # "image" \/ srcImage.truncated
NoRemoteCall ==
    /\ calls.upload_file = 0
    /\ calls.head_object = 0
    /\ calls.start_document_analysis = 0
    /\ calls.get_document_analysis = 0
ErrorLines(e) == <<<<"Error processing document", e>>, <<"Error type", e>>>>

\* C1: whenever the run has ended after the poll loop observed FAILED, it has
\* ended with a failure outcome (exit by exception), never with a normal exit.
C1_FailedExitsWithFailure ==
    (pc = "done" /\ status = "FAILED") => exitCode = 1

\* C2: async_output.json is written at most once per run, and only as the last
\* step of a run whose poll loop ended with SUCCEEDED as the last status seen:
\* never after FAILED, never after an exception, never while the loop runs.
C2_WrittenOnlyOnSucceeded ==
    /\ fileWrites <= 1
    /\ fileWrites = 1 =>
          /\ pc = "done"
          /\ exc = "none"
          /\ status = "SUCCEEDED"
          /\ Len(responses) > 0
          /\ result["JobStatus"] = "SUCCEEDED"
    /\ fileWrites = 0 => outputFile \in {NoJson, StaleJson}
    /\ (status = "FAILED" \/ exc # "none" \/ InLoop) => fileWrites = 0

C2_Witness ==
    /\ fileWrites = 1
    /\ Len(responses) >= 2
    /\ outputFile.exists

\* C3 as stated: once a job identifier has been returned, the poll loop
\* eventually ends, and if it was not ended by an exception the last status it
\* saw is SUCCEEDED or FAILED, whatever the service reports.
C3_PollLoopTerminates ==
    Submitted ~> (LoopEnded /\ (exc = "none" => status \in TerminalStatuses))

\* C3 amended: the poll loop is left only with SUCCEEDED or FAILED as the last
\* status seen or by an exception of a poll (after FAILED nothing raises, after
\* SUCCEEDED only the write can), and it is left eventually unless the service
\* reports statuses other than SUCCEEDED and FAILED for ever.
C3_LoopEndsUnlessNeverTerminal ==
    /\ []((LoopEnded /\ exc = "none") => status \in TerminalStatuses)
    /\ []((pc = "except" /\ status \in TerminalStatuses) => status = "SUCCEEDED")
    /\ \/ []<>(pc = "check" /\ status \notin TerminalStatuses)
       \/ (Submitted ~> LoopEnded)

C3_Witness ==
    /\ pc = "handle"
    /\ sleeps >= 2
    /\ status \in TerminalStatuses

\* C4: a head_object call that raises leaves the run where a successful one
\* leaves it, about to submit the job, with no exception propagating and the
\* process running; the job is then submitted, once, and if such a run ends
\* abnormally it does so through the outer handler.
C4_VerificationNonFatal ==
    /\ [][pc = "head" =>
            /\ pc' = "start"
            /\ exc' = "none"
            /\ exitCode' = -1
            /\ calls'.start_document_analysis = 0
            /\ remoteObject' = remoteObject]_vars
    /\ []((verifyError # "none" /\ pc = "done") =>
            /\ calls.start_document_analysis = 1
            /\ caught = (IF exitCode = 1 THEN 1 ELSE 0))
    /\ (verifyError # "none") ~> (calls.start_document_analysis = 1)

C4_Witness ==
    /\ verifyError # "none"
    /\ issued # {}
    /\ pc = "done"
    /\ exitCode = 0

\* C5: when receipt-1.png is missing or cannot be decoded, the run ends by an
\* uncaught exception during the conversion: no S3 or Textract call is made, the
\* remote object and async_output.json are left as they were.
C5_BadSourceHaltsBeforeRemote ==
    /\ [](BadSource =>
            /\ NoRemoteCall
            /\ pc \in {"open", "convert", "done"}
            /\ remoteObject \in {NoObject, StaleObject}
            /\ outputFile \in {NoJson, StaleJson}
            /\ jpegFile \in {NoJpeg, StaleJpeg}
            /\ fileWrites = 0
            /\ caught = 0
            /\ (pc = "done" => exitCode = 1 /\ exc # "none"))
    /\ BadSource ~> (pc = "done" /\ exitCode = 1)

C5_Witness ==
    /\ srcImage.truncated
    /\ pc = "done"
    /\ exc = "OSError"

\* C6: when the run has ended with SUCCEEDED seen and no exception, it exited
\* normally, SUCCEEDED was the answer of the last poll only, and async_output.json
\* holds exactly the members of that last response, at indent 2, JobStatus being
\* SUCCEEDED.
C6_FileHoldsFinalResponse ==
    (pc = "done" /\ status = "SUCCEEDED" /\ exc = "none") =>
        /\ exitCode = 0
        /\ fileWrites = 1
        /\ Len(responses) = calls.get_document_analysis
        /\ \A i \in 1..(Len(responses) - 1) :
              responses[i]["JobStatus"] \notin TerminalStatuses
        /\ outputFile.exists
        /\ outputFile.indent = JsonIndent
        /\ Len(outputFile.members) = Cardinality(DOMAIN result)
        /\ \A k \in DOMAIN result : JsonGet(outputFile, k) = result[k]
        /\ JsonGet(outputFile, "JobStatus") = "SUCCEEDED"

C6_Witness ==
    /\ pc = "done"
    /\ exitCode = 0
    /\ fileWrites = 1
    /\ Len(responses) = MaxPolls
    /\ JsonGet(outputFile, "Blocks") = "blocks-2"

\* C7: an upload_file call that raises ends the run at once by the uncaught
\* exception: the outer handler is not entered and no verification, submission,
\* poll or result write follows; a job is submitted only after an upload that
\* returned, that is with the new JPEG stored in the bucket.
C7_UploadErrorHalts ==
    /\ [][(pc = "upload" /\ pc' # "head") =>
            /\ pc' = "done"
            /\ exitCode' = 1
            /\ exc' \in UploadErrors
            /\ caught' = 0
            /\ remoteObject' = remoteObject]_vars
    /\ []((pc = "done" /\ calls.upload_file = 1 /\ calls.head_object = 0) =>
            /\ exitCode = 1
            /\ calls.start_document_analysis = 0
            /\ calls.get_document_analysis = 0
            /\ fileWrites = 0
            /\ caught = 0)
    /\ [](calls.start_document_analysis >= 1 =>
            /\ calls.upload_file = 1
            /\ remoteObject.exists
            /\ remoteObject.body = jpegFile
            /\ remoteObject.body.pixels = original_file)

C7_Witness ==
    /\ pc = "done"
    /\ calls.upload_file = 1
    /\ calls.head_object = 0
    /\ exc = "S3UploadFailedError"

\* C8: an exception raised by start_document_analysis or by any
\* get_document_analysis call takes control to the outer handler, which is
\* entered at most once per run, prints the message and the type of the
\* exception and re-raises it: the run then ends abnormally, with no further
\* call and no result file written.
C8_OuterBoundary ==
    /\ [][(pc \in {"start", "poll"} /\ exc' # "none") => pc' = "except"]_vars
    /\ [][pc = "except" =>
            /\ pc' = "done"
            /\ exitCode' = 1
            /\ exc' = exc
            /\ caught' = caught + 1
            /\ calls' = calls
            /\ outputFile' = outputFile
            /\ fileWrites' = fileWrites]_vars
    /\ [](caught <= 1)
    /\ []((pc = "done" /\ caught = 1) =>
            /\ exitCode = 1
            /\ exc # "none"
            /\ fileWrites = 0
            /\ Len(log) >= 2
            /\ SubSeq(log, Len(log) - 1, Len(log)) = ErrorLines(exc))
    /\ (pc = "except") ~> (pc = "done" /\ exitCode = 1)

C8_Witness ==
    /\ pc = "done"
    /\ caught = 1
    /\ status = "IN_PROGRESS"
    /\ calls.get_document_analysis = Len(responses) + 1
    /\ Len(responses) >= 2

\* C9: in every state of every run upload_file, head_object and
\* start_document_analysis have each been invoked at most once, at most one job
\* identifier has been issued, and every poll was made with that identifier.
C9_AtMostOneJob ==
    /\ calls.upload_file <= 1
    /\ calls.head_object <= 1
    /\ calls.start_document_analysis <= 1
    /\ Cardinality(issued) <= 1
    /\ pollIds \subseteq issued
    /\ (calls.get_document_analysis > 0 => pollIds = {job_id})

C9_Witness ==
    /\ pc = "done"
    /\ caught = 1
    /\ calls.get_document_analysis = MaxPolls
    /\ pollIds = {"job-b"}

\* C10: in the poll loop a status other than SUCCEEDED and FAILED is followed by
\* one sleep of 5 seconds and then a poll; SUCCEEDED or FAILED is followed by
\* leaving the loop, after which no sleep and no poll is made; so the sleeps
\* number one less than the polls whenever a status has just been seen or the
\* loop has been left by a status.
C10_SleepBetweenPolls ==
    /\ [][(pc = "check" /\ status \notin TerminalStatuses) => pc' = "sleep"]_vars
    /\ [][pc = "sleep" =>
            /\ pc' = "poll"
            /\ sleeps' = sleeps + 1
            /\ slept' = slept + 5
            /\ calls' = calls]_vars
    /\ [][(pc = "check" /\ status \in TerminalStatuses) => pc' = "handle"]_vars
    /\ [][(pc \in {"handle", "except", "done"}) =>
            /\ pc' \notin {"poll", "check", "sleep"}
            /\ sleeps' = sleeps
            /\ calls' = calls]_vars
    /\ [](slept = 5 * sleeps)
    /\ [](pc \in {"check", "sleep", "handle"} =>
            sleeps = calls.get_document_analysis - 1)
    /\ []((pc = "done" /\ status \in TerminalStatuses) =>
            sleeps = calls.get_document_analysis - 1)
    /\ [](pc = "poll" => sleeps = calls.get_document_analysis)

C10_Witness ==
    /\ pc = "done"
    /\ status = "FAILED"
    /\ calls.get_document_analysis = MaxPolls
    /\ sleeps = MaxPolls - 1
    /\ \E i \in 1..Len(responses) : responses[i]["JobStatus"] = "PARTIAL_SUCCESS"

====
